---- MODULE Spec2Model ----
(***************************************************************************)
(* Model of LF_UpdateSicCodes_MR.js, a NetSuite Map/Reduce script that     *)
(* pulls SIC codes and the company status of every active customer from    *)
(* the Companies House API and writes them to the customer record.         *)
(*                                                                         *)
(* Strings the script inspects character by character (company numbers,    *)
(* SIC codes) are sequences of one-character strings; strings it only      *)
(* compares or copies (company status, field ids) are TLA+ strings.        *)
(***************************************************************************)
EXTENDS Integers, Sequences, FiniteSets, TLC

VARIABLES
    store,          \* customer records as persisted: id -> record
    validCodes,     \* SIC code options the custentity_sic_codes field accepts
    stage,          \* "input", "map", "summarize", "done"
    results,        \* what getInputData returned
    inputError,     \* summary.inputSummary.error
    mapErrors,      \* summary.mapSummary.errors: key -> error
    logged,         \* log.error entries written by summarize
    cur,            \* key of the map invocation running or last run (0: none)
    pc,             \* position inside the running map invocation
    apiResponse,    \* map's apiResponse
    requestUrl,     \* the company id appended to the request URL
    sicCodes,       \* map's sicCodes
    companyStatus,  \* map's companyStatus
    rec,            \* the record object loaded by map (in memory)
    idx,            \* position of forEach in updateClientSicCodes
    errorFound,     \* updateClientSicCodes' errorFound
    lookups,        \* key -> number of _https.get calls
    loads,          \* key -> number of _record.load calls
    saves,          \* key -> number of record.save calls
    descSearches    \* key -> number of getSicDescriptions calls

vars == <<store, validCodes, stage, results, inputError, mapErrors, logged,
          cur, pc, apiResponse, requestUrl, sicCodes, companyStatus, rec,
          idx, errorFound, lookups, loads, saves, descSearches>>

----------------------------------------------------------------------------
(* Bounds of the model.                                                    *)

\* longest sic_codes list a response carries
MaxCodes == 2

\* longest raw company id fed to the identifier normalisation
MaxIdLen == 8

----------------------------------------------------------------------------
(* JavaScript values.                                                      *)

Digits == {"0", "1", "2", "3", "4", "5", "6", "7", "8", "9"}

\* what /\s/ matches
Whitespace == {" ", "\t"}

Min(a, b) == IF a < b THEN a ELSE b

\* every sequence over S of length at most n
SeqsUpTo(S, n) == UNION {[1..k -> S] : k \in 0..n}

\* String.prototype.slice(begin, end), 0-based, end exclusive
Slice(s, begin, end) == SubSeq(s, begin + 1, Min(end, Len(s)))

\* String.prototype.slice(begin)
SliceFrom(s, begin) == SubSeq(s, begin + 1, Len(s))

\* companyId.match(/^[0-9]+$/)
MatchesDigits(s) == Len(s) >= 1 /\ \A i \in 1..Len(s) : s[i] \in Digits

\* companyId.match(/^\s+$/)
MatchesWhitespace(s) == Len(s) >= 1 /\ \A i \in 1..Len(s) : s[i] \in Whitespace

IsNotSpace(c) == c \notin Whitespace

\* companyId.replace(/\s/g, '')
RemoveWhitespace(s) == SelectSeq(s, IsNotSpace)

\* Array.prototype.join(sep), kept as the pieces in order
RECURSIVE Join(_, _)
Join(arr, sep) ==
    IF Len(arr) = 0 THEN <<>>
    ELSE IF Len(arr) = 1 THEN <<arr[1]>>
    ELSE <<arr[1], sep>> \o Join(Tail(arr), sep)

\* JSON.parse(text): a SyntaxError unless the text is JSON
JSONparse(text) ==
    IF text.kind = "text" THEN [threw |-> TRUE, value |-> text]
    ELSE [threw |-> FALSE, value |-> text]

\* obj.length of a plain object: undefined unless it has the property
LengthOf(obj) ==
    IF "length" \in DOMAIN obj THEN [defined |-> TRUE, value |-> obj.length]
    ELSE [defined |-> FALSE, value |-> 0]

\* x > 0 in JavaScript: undefined > 0 is false
GreaterThanZero(x) == x.defined /\ x.value > 0

\* obj[name] of a string property: undefined unless the object has it
PropertyOf(obj, name) ==
    IF name \in DOMAIN obj THEN [defined |-> TRUE, value |-> obj[name]]
    ELSE [defined |-> FALSE, value |-> <<>>]

\* only undefined counts as false
FalsyUndefinedOnly(x) == ~x.defined

\* !x of a string or undefined
Falsy(x) == ~x.defined \/ x.value = <<>>

----------------------------------------------------------------------------
(* getCompaniesHouseApiResponse, lines 48-63: the id put in the URL.       *)

\* the length of the id is not looked at
searchableCompanyIdAnyLength(companyId) ==
    LET padded == IF MatchesDigits(companyId)
                  THEN <<"0">> \o companyId
                  ELSE companyId
    IN  IF MatchesWhitespace(companyId)
        THEN RemoveWhitespace(companyId)
        ELSE padded

searchableCompanyId(companyId) ==
    LET padded == IF MatchesDigits(companyId) /\ Len(companyId) = 7
                  THEN <<"0">> \o companyId
                  ELSE companyId
    IN  IF MatchesWhitespace(companyId)
        THEN RemoveWhitespace(companyId)
        ELSE padded

----------------------------------------------------------------------------
(* Response interpretation, lines 79-117.                                  *)

\* every leading 0 is trimmed
RECURSIVE usableCodeAllZeros(_)
usableCodeAllZeros(code) ==
    IF Slice(code, 0, 1) = <<"0">> THEN usableCodeAllZeros(SliceFrom(code, 1)) ELSE code

\* lines 85-93: the forEach body
usableCode(code) ==
    IF Slice(code, 0, 1) = <<"0">> THEN SliceFrom(code, 1) ELSE code

getSicCodesFromCompaniesHouseResponse(response) ==
    LET parsed == JSONparse(response.body)
        responseBody == parsed.value
    IN  IF parsed.threw THEN [threw |-> TRUE, value |-> <<>>]
        ELSE IF response.code # 200 THEN [threw |-> FALSE, value |-> <<>>]
        \* responseBody.sic_codes of null is a TypeError
        ELSE IF responseBody.kind = "null" THEN [threw |-> TRUE, value |-> <<>>]
        ELSE IF ~responseBody.sic_codes.present THEN [threw |-> FALSE, value |-> <<>>]
        ELSE [threw |-> FALSE,
              value |-> [i \in 1..Len(responseBody.sic_codes.value) |->
                            usableCode(responseBody.sic_codes.value[i])]]

\* the status code of the response is not looked at
getCompanyStatusAnyCode(response) ==
    LET parsed == JSONparse(response.body)
    IN  IF parsed.threw THEN [threw |-> TRUE, value |-> ""]
        ELSE IF parsed.value.kind = "null" THEN [threw |-> TRUE, value |-> ""]
        ELSE [threw |-> FALSE, value |-> parsed.value.company_status.value]

getCompanyStatusFromCompaniesHouseResponse(response) ==
    LET parsed == JSONparse(response.body)
        responseBody == parsed.value
    IN  IF parsed.threw THEN [threw |-> TRUE, value |-> ""]
        ELSE IF response.code # 200 THEN [threw |-> FALSE, value |-> ""]
        ELSE IF responseBody.kind = "null" THEN [threw |-> TRUE, value |-> ""]
        ELSE IF responseBody.company_status.present
                /\ responseBody.company_status.value # ""
             THEN [threw |-> FALSE, value |-> responseBody.company_status.value]
        ELSE [threw |-> FALSE, value |-> ""]

----------------------------------------------------------------------------
(* The customer record and the calls the script makes on it.               *)

\* a SIC code text, character by character
Code620 == <<"6", "2", "0">>
Code4791 == <<"4", "7", "9", "1">>

\* the customrecord_sic_codes records the description search runs over
SicCodeRecords ==
    << [name |-> Code620, custrecord_siccodes_description |-> "Computer programming"],
       [name |-> Code4791, custrecord_siccodes_description |-> "Retail sale via mail order"] >>

\* the customer fields the script reads or writes
Customer(id, companyNo, inactive, codes, description, status, bal, lastmod) ==
    [id |-> id,
     custentity_company_no |-> companyNo,
     isinactive |-> inactive,
     custentity_sic_codes |-> codes,
     custentity_sic_description |-> description,
     custentity_company_status |-> status,
     balance |-> bal[1],
     overduebalance |-> bal[2],
     unbilledorders |-> bal[3],
     lastmodifieddate |-> lastmod]

NoRecord == Customer(0, <<>>, FALSE, <<>>, <<>>, "", <<0, 0, 0>>, 0)

\* record.setText({fieldId: 'custentity_sic_codes', text: sicCode}): the
\* multiselect takes the one option of that text, '' unselects everything,
\* a text that is no option of the field throws
setTextSicCode(record, text, valid) ==
    IF text = <<>> THEN [threw |-> FALSE,
                         value |-> [record EXCEPT !.custentity_sic_codes = <<>>]]
    ELSE IF text \in valid
         THEN [threw |-> FALSE,
               value |-> [record EXCEPT !.custentity_sic_codes = <<text>>]]
    ELSE [threw |-> TRUE, value |-> record]

\* record.setText({fieldId: 'custentity_sic_codes', text: sicCodes}): an
\* array of texts selects all of them
setTextSicCodes(record, texts) ==
    [record EXCEPT !.custentity_sic_codes = texts]

----------------------------------------------------------------------------
(* getSicDescriptions, lines 240-266.                                      *)

\* the operands of the keyword string 'a OR b OR c'
Keywords(joined) == {joined[i] : i \in {j \in 1..Len(joined) : j % 2 = 1}}

HasKeywords(sicRecord, joined) == sicRecord.name \in Keywords(joined)

RECURSIVE RunSearch(_, _)
RunSearch(table, joined) ==
    IF table = <<>> THEN <<>>
    ELSE IF HasKeywords(Head(table), joined)
         THEN <<Head(table).custrecord_siccodes_description>>
                  \o RunSearch(Tail(table), joined)
    ELSE RunSearch(Tail(table), joined)

\* the function returns its data object, not data.records; recordsCount,
\* never initialised (the initialised property is recodsCount), is NaN after
\* the first increment
getSicDescriptions(codes) ==
    LET searchableSicCodesString == Join(codes, " OR ")
        found == RunSearch(SicCodeRecords, searchableSicCodesString)
    IN  [recodsCount |-> 0,
         records |-> found,
         recordsCount |-> IF found = <<>> THEN "undefined" ELSE "NaN"]

\* sicDescriptions.join('; '): a TypeError unless the value is an array
JoinOf(obj, sep) ==
    IF "items" \in DOMAIN obj
    THEN [threw |-> FALSE, value |-> Join(obj.items, sep)]
    ELSE [threw |-> TRUE, value |-> <<>>]

----------------------------------------------------------------------------
(* updateClientCompanyStatus and updateClientAccount, lines 184-227.       *)

\* the status is written in lower case
updateClientCompanyStatusLowered(record, status) ==
    [record EXCEPT !.custentity_company_status =
                      IF status = "Active" THEN "active" ELSE status]

updateClientCompanyStatus(record, status) ==
    [record EXCEPT !.custentity_company_status = status]

\* isinactive is flipped instead of set
updateClientAccountToggle(record, status) ==
    IF status # "active"
       /\ record.balance = 0
       /\ record.overduebalance = 0
       /\ record.unbilledorders = 0
    THEN [record EXCEPT !.isinactive = ~record.isinactive]
    ELSE record

\* the overdue balance is not looked at
updateClientAccountNoOverdue(record, status) ==
    IF status # "active" /\ record.balance = 0 /\ record.unbilledorders = 0
    THEN [record EXCEPT !.isinactive = TRUE]
    ELSE record

updateClientAccount(record, status) ==
    IF status # "active"
       /\ record.balance = 0
       /\ record.overduebalance = 0
       /\ record.unbilledorders = 0
    THEN [record EXCEPT !.isinactive = TRUE]
    ELSE record

\* updateClientSicCodes, lines 130-153: the forEach over the codes left
RECURSIVE forEachSicCode(_, _, _)
forEachSicCode(record, codes, valid) ==
    IF codes = <<>> THEN [record |-> record, errorFound |-> FALSE]
    ELSE LET attempt == setTextSicCode(record, Head(codes), valid)
             after == IF attempt.threw
                      THEN setTextSicCode(attempt.value, <<>>, valid).value
                      ELSE attempt.value
             rest == forEachSicCode(after, Tail(codes), valid)
         IN  [record |-> rest.record,
              errorFound |-> attempt.threw \/ rest.errorFound]

\* updateClientSicCodes as a whole, lines 127-174
updateClientSicCodes(record, codes, valid) ==
    LET looped == forEachSicCode(record, codes, valid)
        sicDescriptions == getSicDescriptions(codes)
        joined == JoinOf(sicDescriptions, "; ")
        withCodes == setTextSicCodes(looped.record, codes)
    IN  IF looped.errorFound THEN [threw |-> FALSE, value |-> looped.record]
        ELSE IF GreaterThanZero(LengthOf(sicDescriptions))
             THEN IF joined.threw
                  THEN [threw |-> TRUE, value |-> withCodes]
                  ELSE [threw |-> FALSE,
                        value |-> [withCodes EXCEPT
                                     !.custentity_sic_description = joined.value]]
        ELSE [threw |-> FALSE, value |-> withCodes]

\* map, lines 335-342: every field write made between load and save
updatedRecord(record, codes, status, valid) ==
    LET withCodes == IF Len(codes) > 0
                     THEN updateClientSicCodes(record, codes, valid).value
                     ELSE record
    IN  IF status # ""
        THEN updateClientAccount(updateClientCompanyStatus(withCodes, status), status)
        ELSE withCodes

----------------------------------------------------------------------------
(* getInputData, lines 278-306.                                            *)

\* getRange({start: 0, end: 600})
RangeStart == 0
RangeEnd == 600

\* filters: custentity_company_no ISNOTEMPTY and isinactive IS 'F'
MatchesFilters(record) ==
    record.custentity_company_no # <<>> /\ ~record.isinactive

\* sort: _search.Sort.DESC on lastmodifieddate (equal dates by internal id)
ComesBefore(a, b) ==
    \/ a.lastmodifieddate > b.lastmodifieddate
    \/ a.lastmodifieddate = b.lastmodifieddate /\ a.id < b.id

\* a search.Result as the map stage receives it
ToResult(record) ==
    [id |-> record.id,
     values |-> [custentity_company_no |-> record.custentity_company_no,
                 custentity_sic_codes |-> record.custentity_sic_codes,
                 lastmodifieddate |-> record.lastmodifieddate]]

\* the result at index end is returned as well
getRangeInclusive(all, start, end) == SubSeq(all, start + 1, Min(end + 1, Len(all)))

\* ResultSet.getRange({start, end}): results start .. end - 1
getRange(all, start, end) == SubSeq(all, start + 1, Min(end, Len(all)))

\* the search runs over the customers, st[i] being the customer of
\* internal id i
getInputData(st) ==
    LET found == SelectSeq(st, MatchesFilters)
        sorted == SortSeq(found, ComesBefore)
        all == [k \in 1..Len(sorted) |-> ToResult(sorted[k])]
    IN  getRange(all, RangeStart, RangeEnd)

----------------------------------------------------------------------------
(* What the environment can supply.                                        *)

RawCodes == {<<"0", "6", "2", "0">>, Code4791}

Statuses == {"active", "dissolved"}

Absent(default) == [present |-> FALSE, value |-> default]

Present(v) == [present |-> TRUE, value |-> v]

\* a response body that is a JSON object
ObjectBody(codes, status) ==
    [kind |-> "object", sic_codes |-> codes, company_status |-> status]

\* a response body that is no JSON (an HTML error page, an empty body)
TextBody == [kind |-> "text", sic_codes |-> Absent(<<>>), company_status |-> Absent("")]

\* the JSON text null
NullBody == [kind |-> "null", sic_codes |-> Absent(<<>>), company_status |-> Absent("")]

ObjectBodies(codeSet, maxCodes, statusSet) ==
    {ObjectBody(c, s) :
        c \in {Absent(<<>>)} \cup {Present(l) : l \in SeqsUpTo(codeSet, maxCodes)},
        s \in {Absent("")} \cup {Present(t) : t \in statusSet}}

\* a 404 of the API: a JSON object that carries neither field
NotFoundResponse == [code |-> 404, body |-> ObjectBody(Absent(<<>>), Absent(""))]

ResponsesOver(codeSet, maxCodes, statusSet) ==
    {[code |-> 200, body |-> b] :
        b \in ObjectBodies(codeSet, maxCodes, statusSet) \cup {TextBody, NullBody}}
    \cup
    {[code |-> 404, body |-> b] :
        b \in {TextBody, NotFoundResponse.body,
               ObjectBody(Present(<<Code4791>>), Present("dissolved"))}}

Responses == ResponsesOver(RawCodes, MaxCodes, Statuses)

NoResponse == [code |-> 0, body |-> TextBody]

\* balance, overdue balance, unbilled orders of a customer
BalanceCases == {<<0, 0, 0>>, <<100, 0, 0>>, <<0, 100, 0>>, <<0, 0, 100>>}

CompanyNo1 == <<"1", "2", "3", "4", "5", "6", "7">>
CompanyNo2 == <<"S", "C", "1", "2", "3", "4", "5", "6">>
CompanyNo3 == <<"0", "7", "6", "5", "4", "3", "2", "1">>

----------------------------------------------------------------------------
(* The Map/Reduce run.                                                     *)

\* the locals of a map invocation that is not running
ResetLocals ==
    /\ sicCodes' = <<>>
    /\ companyStatus' = ""
    /\ rec' = NoRecord
    /\ idx' = 0
    /\ errorFound' = FALSE

\* map returns true
Return ==
    /\ pc' = "idle"
    /\ mapErrors' = mapErrors
    /\ ResetLocals

\* an exception leaves map: the Map/Reduce framework records it in
\* summary.mapSummary.errors under the key of the invocation and goes on
\* with the next key/value pair
Throw(error) ==
    /\ pc' = "idle"
    /\ mapErrors' = (cur :> error) @@ mapErrors
    /\ ResetLocals

\* the same, for the invocation that is only now starting
ThrowAt(key, error) ==
    /\ pc' = "idle"
    /\ mapErrors' = (key :> error) @@ mapErrors
    /\ ResetLocals

\* the getInputData stage: the framework calls getInputData once; an
\* exception becomes summary.inputSummary.error and no map invocation follows
GetInputData ==
    /\ stage = "input"
    /\ stage' = "map"
    /\ \E fault \in BOOLEAN :
          IF fault
          THEN /\ inputError' = "SSS_SEARCH_ERROR"
               /\ results' = <<>>
          ELSE /\ inputError' = inputError
               /\ results' = getInputData(store)
    /\ lookups' = [k \in 1..Len(results') |-> 0]
    /\ loads' = [k \in 1..Len(results') |-> 0]
    /\ saves' = [k \in 1..Len(results') |-> 0]
    /\ descSearches' = [k \in 1..Len(results') |-> 0]
    /\ UNCHANGED <<store, validCodes, mapErrors, logged, cur, pc, apiResponse,
                   requestUrl, sicCodes, companyStatus, rec, idx, errorFound>>

\* map, lines 317-329: the key/value pair is parsed, the company looked up
\* and the response interpreted; the framework hands over the results of
\* getInputData one by one, the key being the position in the array
MapBeginFrom(answers) ==
    /\ stage = "map"
    /\ pc = "idle"
    /\ cur < Len(results)
    /\ cur' = cur + 1
    /\ LET value == results[cur + 1]
           companyNo == PropertyOf(value.values, "custentity_company_no")
       IN  IF Falsy(companyNo)
           THEN /\ Return
                /\ UNCHANGED <<apiResponse, requestUrl, lookups>>
           ELSE /\ requestUrl' = searchableCompanyId(companyNo.value)
                /\ lookups' = [lookups EXCEPT ![cur + 1] = @ + 1]
                /\ \E fault \in BOOLEAN :
                      IF fault
                      THEN \* _https.get throws
                           /\ apiResponse' = NoResponse
                           /\ ThrowAt(cur + 1, "TRANSPORT")
                      ELSE \E response \in answers :
                           LET codes == getSicCodesFromCompaniesHouseResponse(response)
                               status == getCompanyStatusFromCompaniesHouseResponse(response)
                           IN  /\ apiResponse' = response
                               /\ IF codes.threw \/ status.threw
                                  THEN ThrowAt(cur + 1, "PARSE")
                                  ELSE IF Len(codes.value) > 0 \/ status.value # ""
                                  THEN /\ pc' = "load"
                                       /\ sicCodes' = codes.value
                                       /\ companyStatus' = status.value
                                       /\ UNCHANGED <<mapErrors, rec, idx, errorFound>>
                                  ELSE Return
    /\ UNCHANGED <<store, validCodes, stage, results, inputError, logged,
                   loads, saves, descSearches>>

MapBegin == MapBeginFrom(Responses)

\* the record of the first result is loaded, whatever the key
LoadFirstResult ==
    /\ stage = "map"
    /\ pc = "load"
    /\ loads' = [loads EXCEPT ![cur] = @ + 1]
    /\ rec' = store[results[1].id]
    /\ pc' = IF Len(sicCodes) > 0 THEN "codes" ELSE "status"
    /\ UNCHANGED <<store, validCodes, stage, results, inputError, logged, cur,
                   apiResponse, requestUrl, lookups, saves, descSearches,
                   mapErrors, sicCodes, companyStatus, idx, errorFound>>

\* map, lines 330-333: _record.load
Load ==
    /\ stage = "map"
    /\ pc = "load"
    /\ loads' = [loads EXCEPT ![cur] = @ + 1]
    /\ \E fault \in BOOLEAN :
          IF fault
          THEN Throw("LOAD")
          ELSE /\ rec' = store[results[cur].id]
               /\ pc' = IF Len(sicCodes) > 0 THEN "codes" ELSE "status"
               /\ UNCHANGED <<mapErrors, sicCodes, companyStatus, idx, errorFound>>
    /\ UNCHANGED <<store, validCodes, stage, results, inputError, logged, cur,
                   apiResponse, requestUrl, lookups, saves, descSearches>>

\* updateClientSicCodes, lines 130-153: one turn of the forEach
SetSicCode ==
    /\ stage = "map"
    /\ pc = "codes"
    /\ LET sicCode == sicCodes[idx + 1]
           attempt == setTextSicCode(rec, sicCode, validCodes)
       IN  IF attempt.threw
           THEN /\ errorFound' = TRUE
                /\ rec' = setTextSicCode(attempt.value, <<>>, validCodes).value
           ELSE /\ errorFound' = errorFound
                /\ rec' = attempt.value
    /\ idx' = idx + 1
    /\ pc' = IF idx + 1 = Len(sicCodes) THEN "commit" ELSE "codes"
    /\ UNCHANGED <<store, validCodes, stage, results, inputError, mapErrors,
                   logged, cur, apiResponse, requestUrl, sicCodes,
                   companyStatus, lookups, loads, saves, descSearches>>

\* a rejected code makes map leave the status alone
AfterCodesUnlessRejected ==
    IF companyStatus # "" /\ ~errorFound THEN "status" ELSE "save"

\* where map goes on after updateClientSicCodes, lines 339-344
AfterCodes == IF companyStatus # "" THEN "status" ELSE "save"

\* updateClientSicCodes, lines 155-173: after the forEach
CommitSicCodes ==
    /\ stage = "map"
    /\ pc = "commit"
    /\ IF errorFound
       THEN /\ pc' = AfterCodes
            /\ UNCHANGED <<rec, descSearches, mapErrors, sicCodes,
                           companyStatus, idx, errorFound>>
       ELSE LET sicDescriptions == getSicDescriptions(sicCodes)
                joined == JoinOf(sicDescriptions, "; ")
                withCodes == setTextSicCodes(rec, sicCodes)
            IN  /\ descSearches' = [descSearches EXCEPT ![cur] = @ + 1]
                /\ IF GreaterThanZero(LengthOf(sicDescriptions))
                   THEN IF joined.threw
                        THEN Throw("TYPE_ERROR")
                        ELSE /\ rec' = [withCodes EXCEPT
                                          !.custentity_sic_description = joined.value]
                             /\ pc' = AfterCodes
                             /\ UNCHANGED <<mapErrors, sicCodes, companyStatus,
                                            idx, errorFound>>
                   ELSE /\ rec' = withCodes
                        /\ pc' = AfterCodes
                        /\ UNCHANGED <<mapErrors, sicCodes, companyStatus,
                                       idx, errorFound>>
    /\ UNCHANGED <<store, validCodes, stage, results, inputError, logged, cur,
                   apiResponse, requestUrl, lookups, loads, saves>>

\* the status is written to the stored record at once
SetStatusWriteThrough ==
    /\ stage = "map"
    /\ pc = "status"
    /\ rec' = updateClientCompanyStatus(rec, companyStatus)
    /\ store' = [store EXCEPT ![rec.id] = rec']
    /\ pc' = "account"
    /\ UNCHANGED <<validCodes, stage, results, inputError, mapErrors, logged,
                   cur, apiResponse, requestUrl, sicCodes, companyStatus, idx,
                   errorFound, lookups, loads, saves, descSearches>>

\* map, line 340: updateClientCompanyStatus; setText throws when the field
\* does not take the text
SetStatus ==
    /\ stage = "map"
    /\ pc = "status"
    /\ \E fault \in BOOLEAN :
          IF fault
          THEN Throw("SET_STATUS")
          ELSE /\ rec' = updateClientCompanyStatus(rec, companyStatus)
               /\ pc' = "account"
               /\ UNCHANGED <<mapErrors, sicCodes, companyStatus, idx, errorFound>>
    /\ UNCHANGED <<store, validCodes, stage, results, inputError, logged, cur,
                   apiResponse, requestUrl, lookups, loads, saves, descSearches>>

\* the record is saved before updateClientAccount and once more after it
SaveThenUpdateAccount ==
    /\ stage = "map"
    /\ pc = "account"
    /\ saves' = [saves EXCEPT ![cur] = @ + 1]
    /\ store' = [store EXCEPT ![rec.id] = rec]
    /\ rec' = updateClientAccount(rec, companyStatus)
    /\ pc' = "save"
    /\ UNCHANGED <<validCodes, stage, results, inputError, mapErrors, logged,
                   cur, apiResponse, requestUrl, sicCodes, companyStatus, idx,
                   errorFound, lookups, loads, descSearches>>

\* map, line 341: updateClientAccount
UpdateAccount ==
    /\ stage = "map"
    /\ pc = "account"
    /\ rec' = updateClientAccount(rec, companyStatus)
    /\ pc' = "save"
    /\ UNCHANGED <<store, validCodes, stage, results, inputError, mapErrors,
                   logged, cur, apiResponse, requestUrl, sicCodes,
                   companyStatus, idx, errorFound, lookups, loads, saves,
                   descSearches>>

\* the record is stored under the key of the invocation, not under its id
SaveUnderKey ==
    /\ stage = "map"
    /\ pc = "save"
    /\ saves' = [saves EXCEPT ![cur] = @ + 1]
    /\ store' = [store EXCEPT ![cur] = rec]
    /\ Return
    /\ UNCHANGED <<validCodes, stage, results, inputError, logged, cur,
                   apiResponse, requestUrl, lookups, loads, descSearches>>

\* map, lines 344-347: record.save and return
Save ==
    /\ stage = "map"
    /\ pc = "save"
    /\ saves' = [saves EXCEPT ![cur] = @ + 1]
    /\ \E fault \in BOOLEAN :
          IF fault
          THEN /\ Throw("SAVE")
               /\ store' = store
          ELSE /\ store' = [store EXCEPT ![rec.id] = rec]
               /\ Return
    /\ UNCHANGED <<validCodes, stage, results, inputError, logged, cur,
                   apiResponse, requestUrl, lookups, loads, descSearches>>

\* summarize, lines 358-386, called once every key/value pair went through map
summarize ==
    (IF inputError # ""
     THEN {[title |-> "Input Error", key |-> 0, details |-> inputError]}
     ELSE {})
    \cup {[title |-> "Map Error for key", key |-> k, details |-> mapErrors[k]] :
             k \in DOMAIN mapErrors}

Summarize ==
    /\ stage = "map"
    /\ pc = "idle"
    /\ cur = Len(results)
    /\ stage' = "done"
    /\ logged' = summarize
    /\ UNCHANGED <<store, validCodes, results, inputError, mapErrors, cur, pc,
                   apiResponse, requestUrl, sicCodes, companyStatus, rec, idx,
                   errorFound, lookups, loads, saves, descSearches>>

\* the customers on file when the script starts
InitialStore(b1, b2) ==
    (1 :> Customer(1, CompanyNo1, FALSE, <<Code4791>>, <<"Old description">>, "", b1, 20))
    @@ (2 :> Customer(2, CompanyNo2, FALSE, <<>>, <<>>, "", b2, 40))
    @@ (3 :> Customer(3, CompanyNo3, TRUE, <<>>, <<>>, "dissolved", <<0, 0, 0>>, 50))
    @@ (4 :> Customer(4, <<>>, FALSE, <<>>, <<>>, "", <<0, 0, 0>>, 30))

InitRun ==
    /\ results = <<>>
    /\ inputError = ""
    /\ mapErrors = <<>>
    /\ logged = {}
    /\ cur = 0
    /\ pc = "idle"
    /\ apiResponse = NoResponse
    /\ requestUrl = <<>>
    /\ sicCodes = <<>>
    /\ companyStatus = ""
    /\ rec = NoRecord
    /\ idx = 0
    /\ errorFound = FALSE
    /\ lookups = <<>>
    /\ loads = <<>>
    /\ saves = <<>>
    /\ descSearches = <<>>

Init ==
    /\ \E b1 \in BalanceCases, b2 \in BalanceCases : store = InitialStore(b1, b2)
    /\ validCodes \in SUBSET {Code620, Code4791}
    /\ stage = "input"
    /\ InitRun

Next ==
    \/ GetInputData
    \/ MapBegin
    \/ Load
    \/ SetSicCode
    \/ CommitSicCodes
    \/ SetStatus
    \/ UpdateAccount
    \/ Save
    \/ Summarize

Spec == Init /\ [][Next]_vars

----------------------------------------------------------------------------
(* The run in which the platform may end a map invocation at any point     *)
(* between load and save (time or usage limit exceeded, the job            *)
(* interrupted): the exception is raised by the platform and not by a      *)
(* call of the script.                                                     *)

Interrupt ==
    /\ stage = "map"
    /\ pc # "idle"
    /\ Throw("INTERRUPTED")
    /\ UNCHANGED <<store, validCodes, stage, results, inputError, logged, cur,
                   apiResponse, requestUrl, lookups, loads, saves, descSearches>>

InitCrash ==
    /\ \E b \in BalanceCases : store = InitialStore(b, <<0, 0, 0>>)
    /\ validCodes \in SUBSET {Code620, Code4791}
    /\ stage = "input"
    /\ InitRun

NextCrash ==
    \/ GetInputData
    \/ MapBegin
    \/ Load
    \/ SetSicCode
    \/ CommitSicCodes
    \/ SetStatus
    \/ UpdateAccount
    \/ Save
    \/ Interrupt
    \/ Summarize

SpecCrash == InitCrash /\ [][NextCrash]_vars

----------------------------------------------------------------------------
(* The run on one customer whose company number is any short string: the   *)
(* API knows none of them.                                                 *)

IdChars == {"7", " ", "A"}

RawIds == SeqsUpTo(IdChars, MaxIdLen)

LookupNotFound == MapBeginFrom({NotFoundResponse})

InitNorm ==
    /\ \E raw \in RawIds :
          store = (1 :> Customer(1, raw, FALSE, <<>>, <<>>, "", <<0, 0, 0>>, 20))
    /\ validCodes = {Code620, Code4791}
    /\ stage = "input"
    /\ InitRun

NextNorm ==
    \/ GetInputData
    \/ LookupNotFound
    \/ Summarize

SpecNorm == InitNorm /\ [][NextNorm]_vars

----------------------------------------------------------------------------
(* The run on one customer, with the variety of sic_codes and              *)
(* company_status values a response can carry.                             *)

Code012 == <<"0", "1", "2">>

InterpRawCodes == {<<"0", "0", "1", "2">>, <<"0", "6", "2", "0">>, Code4791, <<"0">>}

InterpStatuses == {"active", "dissolved", "Active", ""}

InterpResponses == ResponsesOver(InterpRawCodes, MaxCodes, InterpStatuses)

MapBeginInterp == MapBeginFrom(InterpResponses)

InitInterp ==
    /\ \E b \in BalanceCases :
          store = (1 :> Customer(1, CompanyNo1, FALSE, <<Code4791>>,
                                 <<"Old description">>, "", b, 20))
    /\ validCodes = {Code620, Code012}
    /\ stage = "input"
    /\ InitRun

NextInterp ==
    \/ GetInputData
    \/ MapBeginInterp
    \/ Load
    \/ SetSicCode
    \/ CommitSicCodes
    \/ SetStatus
    \/ UpdateAccount
    \/ Save
    \/ Summarize

SpecInterp == InitInterp /\ [][NextInterp]_vars

----------------------------------------------------------------------------
(* map run twice in succession on the same key/value pair, Companies House *)
(* giving the same answer both times.                                      *)

\* the answer to the lookup of this invocation: that of the invocation
\* before, if it got one
SameAnswer == IF apiResponse.code = 0 THEN Responses ELSE {apiResponse}

MapBeginAgain == MapBeginFrom(SameAnswer)

InitRerun ==
    /\ \E b \in BalanceCases : store = InitialStore(b, <<0, 0, 0>>)
    /\ validCodes \in SUBSET {Code620, Code4791}
    /\ stage = "map"
    /\ results = <<ToResult(store[1]), ToResult(store[1])>>
    /\ inputError = ""
    /\ mapErrors = <<>>
    /\ logged = {}
    /\ cur = 0
    /\ pc = "idle"
    /\ apiResponse = NoResponse
    /\ requestUrl = <<>>
    /\ sicCodes = <<>>
    /\ companyStatus = ""
    /\ rec = NoRecord
    /\ idx = 0
    /\ errorFound = FALSE
    /\ lookups = <<0, 0>>
    /\ loads = <<0, 0>>
    /\ saves = <<0, 0>>
    /\ descSearches = <<0, 0>>

NextRerun ==
    \/ MapBeginAgain
    \/ Load
    \/ SetSicCode
    \/ CommitSicCodes
    \/ SetStatus
    \/ UpdateAccount
    \/ Save
    \/ Summarize

SpecRerun == InitRerun /\ [][NextRerun]_vars

----------------------------------------------------------------------------
(* The map stage handed key/value pairs of which some carry an empty       *)
(* custentity_company_no or none at all: map is an entry point of the      *)
(* script and takes whatever value the framework passes.                   *)

\* a search.Result whose values lack custentity_company_no
WithoutCompanyNo(record) ==
    [id |-> record.id,
     values |-> [custentity_sic_codes |-> record.custentity_sic_codes,
                 lastmodifieddate |-> record.lastmodifieddate]]

\* the key/value pairs the stage may start from
SkipValues(st) ==
    {ToResult(st[1]), ToResult(st[2]), ToResult(st[4]), WithoutCompanyNo(st[3])}

InitSkip ==
    /\ \E b \in BalanceCases : store = InitialStore(b, <<0, 0, 0>>)
    /\ validCodes = {Code620, Code4791}
    /\ stage = "map"
    /\ \E v1 \in SkipValues(store) :
          \E v2 \in SkipValues(store) \ {v1} : results = <<v1, v2>>
    /\ inputError = ""
    /\ mapErrors = <<>>
    /\ logged = {}
    /\ cur = 0
    /\ pc = "idle"
    /\ apiResponse = NoResponse
    /\ requestUrl = <<>>
    /\ sicCodes = <<>>
    /\ companyStatus = ""
    /\ rec = NoRecord
    /\ idx = 0
    /\ errorFound = FALSE
    /\ lookups = <<0, 0>>
    /\ loads = <<0, 0>>
    /\ saves = <<0, 0>>
    /\ descSearches = <<0, 0>>

NextSkip ==
    \/ MapBegin
    \/ Load
    \/ SetSicCode
    \/ CommitSicCodes
    \/ SetStatus
    \/ UpdateAccount
    \/ Save
    \/ Summarize

SpecSkip == InitSkip /\ [][NextSkip]_vars

----------------------------------------------------------------------------
(* The run over a customer file a little smaller and a little larger than  *)
(* the range getInputData asks for. Companies House knows none of the      *)
(* companies and no platform call fails while the customers are mapped.    *)

\* how many customers fewer or more than RangeEnd are on file
Margin == 2

\* every how many customers one is inactive (0: none is)
InactiveEvery == {0, 7, 500}

\* every how many customers one has no company number (0: none)
NoCompanyNoEvery == {0, 250}

\* every how many customers one was modified after all the others (0: none)
TouchedEvery == {0, 40}

Every(n, i) == n # 0 /\ i % n = 0

\* the customers were created newest id first and are modified in id order
LastModified(touchedEvery, i) ==
    IF Every(touchedEvery, i) THEN 1000 + i ELSE 1000 - i

SelectStore(n, inactiveEvery, noNumberEvery, touchedEvery) ==
    [i \in 1..n |->
        Customer(i,
                 IF Every(noNumberEvery, i) THEN <<>> ELSE CompanyNo2,
                 Every(inactiveEvery, i),
                 <<>>, <<>>, "", <<0, 0, 0>>,
                 LastModified(touchedEvery, i))]

LookupQuiet == LookupNotFound /\ mapErrors' = mapErrors

InitSelect ==
    /\ \E n \in (RangeEnd - Margin)..(RangeEnd + Margin),
          inactiveEvery \in InactiveEvery,
          noNumberEvery \in NoCompanyNoEvery,
          touchedEvery \in TouchedEvery :
          store = SelectStore(n, inactiveEvery, noNumberEvery, touchedEvery)
    /\ validCodes = {Code620, Code4791}
    /\ stage = "input"
    /\ InitRun

NextSelect ==
    \/ GetInputData
    \/ LookupQuiet
    \/ Summarize

SpecSelect == InitSelect /\ [][NextSelect]_vars

----------------------------------------------------------------------------
(* Properties of the run.                                                  *)

\* updateClientSicCodes has returned in the running map invocation
CodesDone == pc \in {"status", "account", "save"} /\ Len(sicCodes) > 0

\* the record of the running invocation as it is on file
OnFile == store[rec.id]

ZeroBalances(record) ==
    record.balance = 0 /\ record.overduebalance = 0 /\ record.unbilledorders = 0

\* C1: whenever updateClientSicCodes returns from a code list of which the
\* field rejected at least one code, custentity_sic_codes of the record is
\* empty and custentity_sic_description was not written.
C1_AllOrNothing ==
    (CodesDone /\ errorFound) =>
        /\ rec.custentity_sic_codes = <<>>
        /\ rec.custentity_sic_description = OnFile.custentity_sic_description

\* C2: the record is marked inactive by a map invocation if and only if the
\* company status is non-empty and not "active" and balance, overdue balance
\* and unbilled orders are all zero; otherwise isinactive stays as loaded.
C2_DeactivationGuard ==
    /\ pc \in {"codes", "commit", "status", "account"} =>
          rec.isinactive = OnFile.isinactive
    /\ pc = "save" =>
          rec.isinactive =
             (\/ OnFile.isinactive
              \/ /\ companyStatus # ""
                 /\ companyStatus # "active"
                 /\ ZeroBalances(OnFile))

C2_Deactivated ==
    /\ pc = "save"
    /\ rec.isinactive
    /\ ~OnFile.isinactive
    /\ companyStatus = "dissolved"

\* C6: whenever two or more codes apply cleanly and the description search
\* finds at least one description, custentity_sic_codes is the code list in
\* its parsed order and custentity_sic_description holds the descriptions.
C6_DescriptionsWritten ==
    (/\ CodesDone
     /\ ~errorFound
     /\ Len(sicCodes) >= 2
     /\ getSicDescriptions(sicCodes).records # <<>>) =>
        /\ rec.custentity_sic_codes = sicCodes
        /\ rec.custentity_sic_description =
              Join(getSicDescriptions(sicCodes).records, "; ")

\* the response carries no code and no status for the script
NoData(response) ==
    \/ response.code # 200
    \/ /\ response.body.kind = "object"
       /\ ~response.body.sic_codes.present \/ response.body.sic_codes.value = <<>>
       /\ ~response.body.company_status.present
             \/ response.body.company_status.value = ""

\* a map invocation starts in this step and its lookup gets an answer
LookupAnswered == cur' = cur + 1 /\ apiResponse'.code # 0

\* C3: a map invocation whose lookup brings no codes and no status (every
\* non-200 answer among them) ends without loading, changing or saving any
\* record.
C3_NoDataUntouched ==
    [][(LookupAnswered /\ NoData(apiResponse')) =>
          /\ pc' = "idle"
          /\ rec' = NoRecord
          /\ store' = store
          /\ loads' = loads
          /\ saves' = saves]_vars

C3_NoDataSeen ==
    /\ pc = "idle"
    /\ cur = 2
    /\ apiResponse.code = 404
    /\ cur \notin DOMAIN mapErrors
    /\ lookups[cur] = 1
    /\ loads[cur] = 0
    /\ saves[cur] = 0

\* no two results of getInputData are the same customer
DistinctResults ==
    \A j, k \in 1..Len(results) : results[j].id = results[k].id => j = k

\* C4a: a step of a map invocation changes no customer but its own and
\* records an error under no key but its own; an error ends the invocation
\* and leaves the stage running.
IsolatedStep ==
    /\ \A i \in DOMAIN store :
          store'[i] # store[i] => cur' \in 1..Len(results) /\ i = results[cur'].id
    /\ \A k \in DOMAIN mapErrors : k \in DOMAIN mapErrors' /\ mapErrors'[k] = mapErrors[k]
    /\ \A k \in DOMAIN mapErrors' : k \in DOMAIN mapErrors \/ k = cur'
    /\ mapErrors' # mapErrors => stage' = "map" /\ pc' = "idle" /\ results' = results

\* C4b: whatever faults occurred, every result of getInputData goes through
\* map, and summarize reports each recorded error under its key; only a
\* failed getInputData leaves nothing to process.
AllProcessed ==
    /\ DistinctResults
    /\ DOMAIN mapErrors \subseteq 1..cur
    /\ inputError # "" => results = <<>>
    /\ (stage = "map" /\ pc = "idle" /\ cur < Len(results)) => ENABLED MapBegin
    /\ stage = "done" =>
          /\ cur = Len(results)
          /\ \A k \in 1..Len(results) : lookups[k] = 1
          /\ \A k \in DOMAIN mapErrors :
                [title |-> "Map Error for key", key |-> k, details |-> mapErrors[k]]
                   \in logged

HasSevenDigits(raw) == Len(raw) = 7 /\ \A i \in 1..7 : raw[i] \in Digits

AllWhitespace(raw) == \A i \in 1..Len(raw) : raw[i] \in Whitespace

RawSicCodes == apiResponse.body.sic_codes.value

HasRawSicCodes ==
    /\ pc # "idle"
    /\ apiResponse.code = 200
    /\ apiResponse.body.kind = "object"
    /\ apiResponse.body.sic_codes.present

\* C9: on a 200 response the interpreted code list has the length and order
\* of sic_codes; a code that begins with "0" comes without exactly that one
\* "0", any other code as it is; duplicates stay.
C9_CodeInterpretation ==
    HasRawSicCodes =>
        /\ Len(sicCodes) = Len(RawSicCodes)
        /\ \A i \in 1..Len(RawSicCodes) :
              IF RawSicCodes[i] # <<>> /\ RawSicCodes[i][1] = "0"
              THEN <<"0">> \o sicCodes[i] = RawSicCodes[i]
              ELSE sicCodes[i] = RawSicCodes[i]

C9_DoubleZeroTwice ==
    /\ HasRawSicCodes
    /\ RawSicCodes = << <<"0", "0", "1", "2">>, <<"0", "0", "1", "2">> >>
    /\ sicCodes = <<Code012, Code012>>

\* C7: a response whose status code is not 200 is interpreted as no codes
\* and no status, and raises no error for the candidate.
C7_NonOkIsAbsence ==
    (cur = 1 /\ apiResponse.code \notin {0, 200}) =>
        /\ sicCodes = <<>>
        /\ companyStatus = ""
        /\ mapErrors = <<>>

\* an error of the platform, not one the response decides
PlatformFaults == {"TRANSPORT", "LOAD", "SET_STATUS", "SAVE"}

NoPlatformFault == \A k \in DOMAIN mapErrors : mapErrors[k] \notin PlatformFaults

\* C10a: the second invocation, given the same response, leaves the stored
\* records as the first left them.
SecondRunRewrites == (cur = 2 /\ NoPlatformFault) => store' = store

\* C10b: both invocations end the same way.
SameOutcome ==
    (stage = "done" /\ NoPlatformFault) =>
        /\ 1 \in DOMAIN mapErrors <=> 2 \in DOMAIN mapErrors
        /\ 1 \in DOMAIN mapErrors => mapErrors[1] = mapErrors[2]
        /\ loads[1] = loads[2]
        /\ saves[1] = saves[2]

\* C10: map run twice in succession on the same candidate, with the same
\* response, the same valid codes and the same balances, ends the same way
\* both times and the second run leaves the record as the first stored it.
C10_Idempotence == []SameOutcome /\ [][SecondRunRewrites]_vars

C10_SavedTwice ==
    /\ stage = "done"
    /\ saves = <<1, 1>>
    /\ store[1].isinactive
    /\ store[1].custentity_sic_codes = <<Code620>>

\* the customers a run may select
Eligible == {i \in DOMAIN store :
                store[i].custentity_company_no # <<>> /\ ~store[i].isinactive}

ResultIds == {results[k].id : k \in 1..Len(results)}

\* results is the first RangeEnd eligible customers, newest first
SelectedNewestFirst ==
    /\ Len(results) <= RangeEnd
    /\ Len(results) = Min(RangeEnd, Cardinality(Eligible))
    /\ \A k \in 1..Len(results) :
          /\ results[k].id \in Eligible
          /\ results[k].values.custentity_company_no
                = store[results[k].id].custentity_company_no
          /\ results[k].values.lastmodifieddate
                = store[results[k].id].lastmodifieddate
    /\ \A k \in 1..(Len(results) - 1) :
          results[k].values.lastmodifieddate > results[k + 1].values.lastmodifieddate
    /\ \A i \in Eligible \ ResultIds :
          store[i].lastmodifieddate < results[Len(results)].values.lastmodifieddate

\* C5: getInputData returns at most 600 candidates, each active with a
\* company number, most recently modified first, the first 600 of the
\* eligible customers in that order; a run makes at most 600 lookups.
C5_BatchCap ==
    /\ (stage = "map" /\ cur = 0 /\ inputError = "") => SelectedNewestFirst
    /\ Len(results) <= RangeEnd
    /\ Len(lookups) <= RangeEnd
    /\ \A k \in 1..Len(lookups) : lookups[k] <= 1

C5_CapReached ==
    /\ stage = "map"
    /\ cur = 3
    /\ Len(results) = RangeEnd
    /\ Cardinality(Eligible) > RangeEnd
    /\ DOMAIN store \ Eligible # {}
    /\ results[1].id # 1
    /\ \A k \in 1..3 : lookups[k] = 1

\* map, line 329: the response brings codes or a status
HasData(response) ==
    LET codes == getSicCodesFromCompaniesHouseResponse(response)
        status == getCompanyStatusFromCompaniesHouseResponse(response)
    IN  /\ ~codes.threw
        /\ ~status.threw
        /\ Len(codes.value) > 0 \/ status.value # ""

\* the map invocation of key k is over
Finished(k) == k < cur \/ (k = cur /\ pc = "idle")

\* C11a: an invocation loads at most once and saves at most once, the save
\* after the load; one that ends without an exception has saved if it has
\* loaded, and has loaded exactly when the response brought codes or a
\* status; while fields are being written the record is loaded and unsaved.
LoadedOnceSavedOnce ==
    /\ \A k \in 1..Len(results) :
          /\ loads[k] <= 1
          /\ saves[k] <= loads[k]
          /\ (Finished(k) /\ k \notin DOMAIN mapErrors) => saves[k] = loads[k]
    /\ (cur > 0 /\ pc = "idle" /\ lookups[cur] = 1 /\ cur \notin DOMAIN mapErrors) =>
          (loads[cur] = 1 <=> HasData(apiResponse))
    /\ pc = "load" => loads[cur] = 0 /\ saves[cur] = 0
    /\ pc \in {"codes", "commit", "status", "account", "save"} =>
          loads[cur] = 1 /\ saves[cur] = 0

\* C11b: record.save is the last thing an invocation does: it persists the
\* record with every field written so far, and no field of the record is
\* written, and nothing persisted, by any other step.
SaveIsLast ==
    /\ (stage = "map" /\ saves' # saves) =>
          /\ pc = "save"
          /\ pc' = "idle"
          /\ mapErrors' = mapErrors =>
                store' = [store EXCEPT ![results[cur].id] = rec]
    /\ (rec' # rec /\ pc' # "idle") => saves'[cur'] = 0 /\ store' = store
    /\ store' # store => saves' # saves

\* C11: a candidate whose response brings codes or a status and whose
\* processing raises no exception is loaded exactly once and saved exactly
\* once, the save coming after every field write; no field is written after
\* the save.
C11_SinglePersist == []LoadedOnceSavedOnce /\ [][SaveIsLast]_vars

C11_AllFieldsThenSaved ==
    /\ stage = "done"
    /\ mapErrors = <<>>
    /\ loads = <<1, 1>>
    /\ saves = <<1, 1>>
    /\ store[2].custentity_sic_codes = <<Code620, Code4791>>
    /\ store[2].custentity_company_status = "dissolved"
    /\ store[2].isinactive

\* C12: whatever fault ends the processing of a candidate, and wherever
\* between load and save, a step either leaves a stored record as it was or
\* it is the successful save of the candidate's own record with every field
\* write computed from the response; a step that records a fault persists
\* nothing.
C12_CrashAtomicity ==
    [][\A i \in DOMAIN store :
          \/ store'[i] = store[i]
          \/ /\ stage = "map"
             /\ i = results[cur].id
             /\ mapErrors' = mapErrors
             /\ store'[i] =
                   updatedRecord(store[i],
                                 getSicCodesFromCompaniesHouseResponse(apiResponse).value,
                                 getCompanyStatusFromCompaniesHouseResponse(apiResponse).value,
                                 validCodes)]_vars

C12_InterruptedBeforeSave ==
    /\ stage = "done"
    /\ 1 \in DOMAIN mapErrors
    /\ mapErrors[1] = "INTERRUPTED"
    /\ descSearches[1] = 1
    /\ saves[1] = 0
    /\ store[results[1].id].custentity_sic_codes = <<>>
    /\ saves[2] = 1
    /\ store[results[2].id].custentity_company_status = "dissolved"

\* C13: getSicDescriptions is called in a map invocation only when more
\* than one code was set without a rejection: never for a list of one
\* code, never for a list of which a code was rejected.
C13_DescriptionSearchOnlyForMany ==
    (pc # "idle" /\ descSearches[cur] > 0) =>
        /\ Len(sicCodes) > 1
        /\ ~errorFound

\* the company_status of the response being processed, as map interprets it
InterpretedStatus == getCompanyStatusFromCompaniesHouseResponse(apiResponse).value

\* C14a: in an invocation whose status is empty neither
\* custentity_company_status nor isinactive of the loaded record is written.
EmptyStatusWritesNothing ==
    (pc \in {"codes", "commit", "status", "account", "save"} /\ InterpretedStatus = "") =>
        /\ pc \notin {"status", "account"}
        /\ rec.custentity_company_status = OnFile.custentity_company_status
        /\ rec.isinactive = OnFile.isinactive

\* C14b: the record.save of an invocation that raises no exception stores
\* the company_status string of the response as it came when it is not
\* empty, and the status and the inactive flag as they were when it is.
SavedStatus ==
    (stage = "map" /\ saves' # saves /\ mapErrors' = mapErrors) =>
        LET id == results[cur].id
        IN  IF InterpretedStatus # ""
            THEN /\ apiResponse.body.company_status.present
                 /\ store'[id].custentity_company_status
                       = apiResponse.body.company_status.value
            ELSE /\ store'[id].custentity_company_status
                       = store[id].custentity_company_status
                 /\ store'[id].isinactive = store[id].isinactive

\* C14: when the interpreted company status is not empty and no exception
\* occurs, the saved record's status field is the status string of the
\* response, verbatim; when it is empty, the status field and the inactive
\* flag are not written.
C14_StatusApplication == []EmptyStatusWritesNothing /\ [][SavedStatus]_vars

C14_CapitalisedStatusSaved ==
    /\ stage = "done"
    /\ saves = <<1>>
    /\ mapErrors = <<>>
    /\ apiResponse.body.company_status = Present("Active")
    /\ store[1].custentity_company_status = "Active"

\* the company number of the key/value pair of key k is empty or missing
NoCompanyNo(k) ==
    \/ "custentity_company_no" \notin DOMAIN results[k].values
    \/ results[k].values.custentity_company_no = <<>>

\* C15a: the step that starts the invocation of such a pair ends it, with
\* no lookup, no load, no save, no error and the store as it was.
SkippedStep ==
    (cur' = cur + 1 /\ NoCompanyNo(cur')) =>
        /\ pc' = "idle"
        /\ UNCHANGED <<store, mapErrors, lookups, loads, saves, descSearches,
                       apiResponse, requestUrl>>

\* C15b: no lookup, load, save or error is ever counted under its key.
SkippedKeys ==
    \A k \in 1..Len(results) :
        NoCompanyNo(k) =>
            /\ lookups[k] = 0
            /\ loads[k] = 0
            /\ saves[k] = 0
            /\ k \notin DOMAIN mapErrors
            /\ k = cur => pc = "idle"

\* C15: for a candidate whose company number is empty or missing map
\* returns without a lookup, without loading or saving a record and without
\* an error being recorded.
C15_EmptyIdentifierSkip == []SkippedKeys /\ [][SkippedStep]_vars

C15_BothSkipped ==
    /\ stage = "done"
    /\ "custentity_company_no" \in DOMAIN results[1].values
    /\ results[1].values.custentity_company_no = <<>>
    /\ "custentity_company_no" \notin DOMAIN results[2].values
    /\ lookups = <<0, 0>>
    /\ mapErrors = <<>>
    /\ logged = {}

\* C16a: once the status path is through in an invocation of which a code
\* was rejected, the record in memory has the status and isinactive is what
\* updateClientAccount makes of the stored flag and balances.
RejectionKeepsStatus ==
    (pc = "save" /\ errorFound /\ companyStatus # "") =>
        /\ rec.custentity_company_status = companyStatus
        /\ rec.isinactive =
              (\/ OnFile.isinactive
               \/ companyStatus # "active" /\ ZeroBalances(OnFile))

\* C16b: after a rejection updateClientSicCodes hands over to the status
\* path, and the invocation, if it ends without an exception, ends with
\* the save of that record.
RejectionStillSaved ==
    /\ (pc = "commit" /\ errorFound /\ companyStatus # "") => pc' = "status"
    /\ (errorFound /\ pc' = "idle" /\ mapErrors' = mapErrors) =>
          /\ pc = "save"
          /\ saves'[cur] = saves[cur] + 1
          /\ store'[results[cur].id] = rec

\* C16: a candidate whose code list had a rejected code and whose status is
\* not empty is still saved, with the status set and the deactivation rule
\* applied.
C16_RejectionKeepsStatusPath == []RejectionKeepsStatus /\ [][RejectionStillSaved]_vars

C16_DeactivatedAfterRejection ==
    /\ pc = "idle"
    /\ cur = 1
    /\ mapErrors = <<>>
    /\ saves[1] = 1
    /\ apiResponse.body.sic_codes.present
    /\ \E i \in 1..Len(apiResponse.body.sic_codes.value) :
          usableCode(apiResponse.body.sic_codes.value[i]) \notin validCodes
    /\ store[results[1].id].custentity_sic_codes = <<>>
    /\ store[results[1].id].custentity_company_status = "dissolved"
    /\ store[results[1].id].isinactive

\* C17a: every key has had no lookup before its invocation and, from then
\* on, exactly one if its company number is non-empty and none otherwise;
\* the record in memory is the one of the candidate's id.
OneLookupOwnRecord ==
    /\ \A k \in 1..Len(results) :
          lookups[k] = IF k <= cur /\ ~NoCompanyNo(k) THEN 1 ELSE 0
    /\ pc \in {"codes", "commit", "status", "account", "save"} =>
          rec.id = results[cur].id

\* C17b: a step counts a lookup, a load or a save under the key of the
\* running invocation only, and the one stored record it may change is the
\* record of that candidate's id, which keeps its id.
OwnRecordStep ==
    /\ \A k \in 1..Len(results) :
          (lookups'[k] # lookups[k] \/ loads'[k] # loads[k] \/ saves'[k] # saves[k])
             => k = cur'
    /\ \A i \in DOMAIN store :
          store'[i] # store[i] => i = results[cur].id /\ store'[i].id = i

\* C17: map makes at most one lookup per candidate, exactly one when the
\* company number is non-empty, and loads, changes and saves no record but
\* the one whose id is the candidate's; every other stored record is left
\* as it was.
C17_OneLookupOwnRecord == []OneLookupOwnRecord /\ [][OwnRecordStep]_vars

C17_EachSavedUnderOwnId ==
    /\ stage = "done"
    /\ results[1].id = 2
    /\ results[2].id = 1
    /\ lookups = <<1, 1>>
    /\ saves = <<1, 1>>
    /\ mapErrors = <<>>
    /\ store[2].custentity_company_status = "dissolved"
    /\ store[1].custentity_company_status = "active"
    /\ store[1].custentity_sic_codes = <<Code620>>
    /\ store[4].custentity_company_status = ""

====
